---- MODULE Spec2Model ----
(***************************************************************************)
(* A model of the rnla crate (src/src/lib.rs, src/src/bench.rs,            *)
(* src/src/rng.rs): the row-major Matrix, its borrowed row-slice views,    *)
(* the MatrixIndex implementations, matmul, the bench harness and the LCG. *)
(*                                                                         *)
(* Conventions.                                                            *)
(*  - A Vec<f64> is a sequence; Rust's zero-based offset k is element k+1. *)
(*  - A borrowed slice &[f64] / &mut [f64] is a record [start, len]: the   *)
(*    offset of its first element in the owner's buffer and its length.    *)
(*  - usize is UsizeBits wide.  An overflowing usize operation panics when *)
(*    the build has overflow checks (debug) and wraps when it has not      *)
(*    (release); the variable overflow_checks is the build's choice.       *)
(***************************************************************************)
EXTENDS Integers, Sequences, FiniteSets, TLC

(***************************************************************************)
(* Bounds of the model.                                                    *)
(***************************************************************************)
\* width of usize in the model (the program's is 64)
UsizeBits == 4
\* largest row/column count handed to from_vec besides the overflowing ones
MaxDim == 3
\* longest Vec<f64> handed to from_vec
MaxLen == 6

\* largest row count of a and c, and column count of b and c, in matmul
MaxOuter == 2
\* largest column count of a / row count of b in matmul
MaxInner == 3
\* largest warmup and trial_count given to bench besides usize::MAX
MaxIter == 5
\* largest magnitude of the seeds given to RNG::new
MaxSeed == 1000
\* largest number of rand_f64 calls on one RNG
MaxDraws == 3
\* largest finite magnitude of the model's f64 (the program's is f64::MAX)
FMax == 2

UsizeMod == 2 ^ UsizeBits

\* the f64 entries used where no arithmetic is done on them
Vals == {0, 1}

VARIABLES
    overflow_checks, \* TRUE: debug build (overflow panics), FALSE: release
    phase,           \* "none" | "owned" | "moved": the Matrix's lifecycle
    mat,             \* the Matrix: [m, n, data]
    view,            \* the live borrow: [kind, m, n, rows]
    shadow,          \* history: the entries (i, j) the view should show
    input,           \* history: from_vec's arguments, until a first write
    vec_out,         \* the Vec<f64> to_vec returned
    last,            \* the last call and its outcome
    matA, matB, matC,\* matmul: the Matrices behind the views a, b and c
    mm,              \* matmul: the call's outcome and its unchecked accesses
    bench_pc,        \* bench: where the call stands
    opts,            \* bench: BenchOptions [warmup, trial_count]
    loop_end,        \* bench: the end of the range 0..warmup + trial_count
    iter,            \* bench: the loop variable i
    args,            \* bench: the startup result not yet consumed
    total_count,     \* bench: total_count
    timed,           \* bench: the iterations whose time went into total_time
    calls,           \* bench: history of the closure invocations
    rng,             \* RNG: the generator's field last
    draws,           \* RNG: number of rand_f64 calls made
    rand_out         \* RNG: outcome of the last rand_f64 call

idxVars == <<phase, mat, view, shadow, input, vec_out, last>>

mmVars == <<matA, matB, matC, mm>>

benchVars ==
    <<bench_pc, opts, loop_end, iter, args, total_count, timed, calls>>

rngVars == <<rng, draws, rand_out>>

vars == <<overflow_checks, idxVars, mmVars, benchVars, rngVars>>

\* what the calls on one Matrix leave alone
idxRest == <<mmVars, benchVars, rngVars>>

(***************************************************************************)
(* usize arithmetic                                                        *)
(***************************************************************************)
Overflows(x) == x >= UsizeMod

Wrap(x) == x % UsizeMod

At(s, k) == s[k + 1]

SeqsUpTo(S, n) == UNION {[1..k -> S] : k \in 0..n}

(***************************************************************************)
(* Matrix (lib.rs 9-79)                                                    *)
(***************************************************************************)
Matrix(m, n, data) == [m |-> m, n |-> n, data |-> data]

NoMatrix == Matrix(0, 0, <<>>)

NoView == [kind |-> "none", m |-> 0, n |-> 0, rows |-> <<>>]

Call(op, i, j, out, ret) ==
    [op |-> op, i |-> i, j |-> j, out |-> out, ret |-> ret]

\* from_vec: assert_eq!(m * n, data.len()), then the struct is built.
from_vec_panics(m, n, data) ==
    \/ overflow_checks /\ Overflows(m * n)
    \/ Wrap(m * n) # Len(data)

\* A slice expression &data[lo..hi] panics unless lo <= hi <= data.len().
SliceOk(lo, hi, len) == lo <= hi /\ hi <= len

\* view: row i is &self.data[i * n .. i * n + n], for i in 0..m, in order.
RECURSIVE ViewRows(_, _, _)
ViewRows(M, i, acc) ==
    IF i = M.m THEN [ok |-> TRUE, rows |-> acc]
    ELSE LET lo == i * M.n
             hi == i * M.n + M.n
         IN  IF overflow_checks /\ (Overflows(lo) \/ Overflows(hi))
             THEN [ok |-> FALSE, rows |-> <<>>]
             ELSE IF ~SliceOk(Wrap(lo), Wrap(hi), Len(M.data))
             THEN [ok |-> FALSE, rows |-> <<>>]
             ELSE ViewRows(M, i + 1,
                      Append(acc, [start |-> Wrap(lo),
                                   len |-> Wrap(hi) - Wrap(lo)]))

view_of(M) == ViewRows(M, 0, <<>>)

\* view_mut: remain = &mut data[..]; m times: (row, left) =
\* remain.split_at_mut(n), push row, remain = left.  split_at_mut(n) panics
\* when n > remain.len().
RECURSIVE ViewMutRows(_, _, _, _)
ViewMutRowsNoAdvance(M, i, remain, acc) ==
    IF i = M.m THEN [ok |-> TRUE, rows |-> acc]
    ELSE IF M.n > remain.len THEN [ok |-> FALSE, rows |-> <<>>]
    ELSE ViewMutRows(M, i + 1, remain,
             Append(acc, [start |-> remain.start, len |-> M.n]))
ViewMutRows(M, i, remain, acc) ==
    IF i = M.m THEN [ok |-> TRUE, rows |-> acc]
    ELSE IF M.n > remain.len THEN [ok |-> FALSE, rows |-> <<>>]
    ELSE ViewMutRows(M, i + 1,
             [start |-> remain.start + M.n, len |-> remain.len - M.n],
             Append(acc, [start |-> remain.start, len |-> M.n]))

view_mut_of(M) ==
    ViewMutRows(M, 0, [start |-> 0, len |-> Len(M.data)], <<>>)

(***************************************************************************)
(* impl MatrixIndex for Matrix (lib.rs 96-120)                             *)
(***************************************************************************)
\* self.data[i * self.n + j]: the Vec's own bounds check on the flat offset.
mat_index_panics(M, i, j) ==
    \/ overflow_checks /\ Overflows(i * M.n + j)
    \/ Wrap(i * M.n + j) >= Len(M.data)

mat_get(M, i, j) == At(M.data, Wrap(i * M.n + j))

mat_set(M, i, j, value) ==
    [M EXCEPT !.data[Wrap(i * M.n + j) + 1] = value]

(***************************************************************************)
(* impl MatrixIndex for MatrixView / MatrixViewMut (lib.rs 128-182)        *)
(***************************************************************************)
\* self.data[i][j]: the Vec of rows checks i, the row slice checks j.
view_index_panics(V, i, j) ==
    \/ i >= Len(V.rows)
    \/ j >= At(V.rows, i).len

\* the buffer offset behind self.data[i][j]
view_offset(V, i, j) == At(V.rows, i).start + j

view_get(M, V, i, j) == At(M.data, view_offset(V, i, j))

\* MatrixViewMut::set / set_unchecked: the write goes through the row slice.
view_mut_set_badrow(M, V, i, j, value) ==
    [M EXCEPT !.data[view_offset(V, 0, j) + 1] = value]
view_mut_set(M, V, i, j, value) ==
    [M EXCEPT !.data[view_offset(V, i, j) + 1] = value]

\* MatrixView::set / set_unchecked: panic!("cannot set entries with
\* MatrixView") before anything else.
view_set_writes_through(M, V, i, j, value) ==
    IF view_index_panics(V, i, j)
    THEN [panics |-> TRUE, mat |-> M]
    ELSE [panics |-> FALSE, mat |-> view_mut_set(M, V, i, j, value)]
view_set(M, V, i, j, value) == [panics |-> TRUE, mat |-> M]

(***************************************************************************)
(* The expected entries of a freshly borrowed Matrix: entry (i, j) is the  *)
(* element at flat offset i * n + j of its buffer.                         *)
(***************************************************************************)
Cells(m, n) == (0..(m - 1)) \X (0..(n - 1))

EntriesOf(M) ==
    [valid |-> TRUE,
     e |-> [c \in Cells(M.m, M.n) |-> At(M.data, c[1] * M.n + c[2])]]

NoShadow == [valid |-> FALSE, e |-> <<>>]

\* the indices a caller passes: in range and past the end
IdxIn == 0..MaxDim

\* the row and column counts handed to from_vec: small ones, and two whose
\* product does not fit in usize
DimIn == (0..MaxDim) \cup {UsizeMod \div 2}

(***************************************************************************)
(* The calls a program makes on one Matrix.  The guards on phase and       *)
(* view.kind are the borrow checker's: no call on a moved Matrix, no       *)
(* &mut self call while a view lives, no &self call while a mutable view   *)
(* lives.  A panicking call leaves the state as it was and is recorded in  *)
(* last.                                                                   *)
(***************************************************************************)
FromVec ==
    /\ phase = "none"
    /\ \E m \in DimIn, n \in DimIn, data \in SeqsUpTo(Vals, MaxLen) :
         /\ input' = Matrix(m, n, data)
         /\ IF from_vec_panics(m, n, data)
            THEN /\ phase' = "failed"
                 /\ mat' = mat
                 /\ last' = Call("from_vec", 0, 0, "panic", 0)
            ELSE /\ phase' = "owned"
                 /\ mat' = Matrix(m, n, data)
                 /\ last' = Call("from_vec", 0, 0, "ok", 0)
    /\ UNCHANGED <<idxRest, overflow_checks, view, shadow, vec_out>>

ToVec ==
    /\ phase = "owned" /\ view.kind = "none"
    /\ phase' = "moved"
    /\ vec_out' = mat.data
    /\ mat' = NoMatrix
    /\ last' = Call("to_vec", 0, 0, "ok", 0)
    /\ UNCHANGED <<idxRest, overflow_checks, view, shadow, input>>

View ==
    /\ phase = "owned" /\ view.kind = "none"
    /\ LET r == view_of(mat)
       IN  IF r.ok
           THEN /\ view' = [kind |-> "ro", m |-> mat.m, n |-> mat.n,
                            rows |-> r.rows]
                /\ shadow' = EntriesOf(mat)
                /\ last' = Call("view", 0, 0, "ok", 0)
           ELSE /\ UNCHANGED <<view, shadow>>
                /\ last' = Call("view", 0, 0, "panic", 0)
    /\ UNCHANGED <<idxRest, overflow_checks, phase, mat, input, vec_out>>

ViewMut ==
    /\ phase = "owned" /\ view.kind = "none"
    /\ LET r == view_mut_of(mat)
       IN  IF r.ok
           THEN /\ view' = [kind |-> "mut", m |-> mat.m, n |-> mat.n,
                            rows |-> r.rows]
                /\ shadow' = EntriesOf(mat)
                /\ last' = Call("view_mut", 0, 0, "ok", 0)
           ELSE /\ UNCHANGED <<view, shadow>>
                /\ last' = Call("view_mut", 0, 0, "panic", 0)
    /\ UNCHANGED <<idxRest, overflow_checks, phase, mat, input, vec_out>>

\* the view goes out of scope; the Matrix is usable again
DropView ==
    /\ view.kind # "none"
    /\ view' = NoView
    /\ last' = Call("drop", 0, 0, "ok", 0)
    /\ UNCHANGED <<idxRest, overflow_checks, phase, mat, shadow, input, vec_out>>

MatGet ==
    /\ phase = "owned" /\ view.kind # "mut"
    /\ \E i \in IdxIn, j \in IdxIn :
         last' = IF mat_index_panics(mat, i, j)
                 THEN Call("Matrix::get", i, j, "panic", 0)
                 ELSE Call("Matrix::get", i, j, "ok", mat_get(mat, i, j))
    /\ UNCHANGED <<idxRest, overflow_checks, phase, mat, view, shadow, input, vec_out>>

MatSet ==
    /\ phase = "owned" /\ view.kind = "none"
    /\ \E i \in IdxIn, j \in IdxIn, v \in Vals :
         IF mat_index_panics(mat, i, j)
         THEN /\ last' = Call("Matrix::set", i, j, "panic", 0)
              /\ UNCHANGED <<mat, shadow, input>>
         ELSE /\ last' = Call("Matrix::set", i, j, "ok", 0)
              /\ mat' = mat_set(mat, i, j, v)
              /\ shadow' = NoShadow
              /\ input' = NoMatrix
    /\ UNCHANGED <<idxRest, overflow_checks, phase, view, vec_out>>

ViewGet ==
    /\ view.kind = "ro"
    /\ \E i \in IdxIn, j \in IdxIn :
         last' = IF view_index_panics(view, i, j)
                 THEN Call("MatrixView::get", i, j, "panic", 0)
                 ELSE Call("MatrixView::get", i, j, "ok",
                           view_get(mat, view, i, j))
    /\ UNCHANGED <<idxRest, overflow_checks, phase, mat, view, shadow, input, vec_out>>

\* the caller of an unsafe accessor has established i < m and j < n
ViewGetUnchecked ==
    /\ view.kind = "ro"
    /\ \E i \in IdxIn, j \in IdxIn :
         /\ i < view.m /\ j < view.n
         /\ last' = Call("MatrixView::get_unchecked", i, j, "ok",
                         view_get(mat, view, i, j))
    /\ UNCHANGED <<idxRest, overflow_checks, phase, mat, view, shadow, input, vec_out>>

ViewSet ==
    /\ view.kind = "ro"
    /\ \E i \in IdxIn, j \in IdxIn, v \in Vals :
         LET r == view_set(mat, view, i, j, v)
         IN  /\ mat' = r.mat
             /\ last' = Call("MatrixView::set", i, j,
                             IF r.panics THEN "panic" ELSE "ok", 0)
    /\ UNCHANGED <<idxRest, overflow_checks, phase, view, shadow, input, vec_out>>

ViewSetUnchecked ==
    /\ view.kind = "ro"
    /\ \E i \in IdxIn, j \in IdxIn, v \in Vals :
         LET r == view_set(mat, view, i, j, v)
         IN  /\ mat' = r.mat
             /\ last' = Call("MatrixView::set_unchecked", i, j,
                             IF r.panics THEN "panic" ELSE "ok", 0)
    /\ UNCHANGED <<idxRest, overflow_checks, phase, view, shadow, input, vec_out>>

ViewMutGet ==
    /\ view.kind = "mut"
    /\ \E i \in IdxIn, j \in IdxIn :
         last' = IF view_index_panics(view, i, j)
                 THEN Call("MatrixViewMut::get", i, j, "panic", 0)
                 ELSE Call("MatrixViewMut::get", i, j, "ok",
                           view_get(mat, view, i, j))
    /\ UNCHANGED <<idxRest, overflow_checks, phase, mat, view, shadow, input, vec_out>>

ViewMutGetUnchecked ==
    /\ view.kind = "mut"
    /\ \E i \in IdxIn, j \in IdxIn :
         /\ i < view.m /\ j < view.n
         /\ last' = Call("MatrixViewMut::get_unchecked", i, j, "ok",
                         view_get(mat, view, i, j))
    /\ UNCHANGED <<idxRest, overflow_checks, phase, mat, view, shadow, input, vec_out>>

ViewMutSet ==
    /\ view.kind = "mut"
    /\ \E i \in IdxIn, j \in IdxIn, v \in Vals :
         IF view_index_panics(view, i, j)
         THEN /\ last' = Call("MatrixViewMut::set", i, j, "panic", 0)
              /\ UNCHANGED <<mat, shadow, input>>
         ELSE /\ last' = Call("MatrixViewMut::set", i, j, "ok", 0)
              /\ mat' = view_mut_set(mat, view, i, j, v)
              /\ shadow' = [shadow EXCEPT !.e[<<i, j>>] = v]
              /\ input' = NoMatrix
    /\ UNCHANGED <<idxRest, overflow_checks, phase, view, vec_out>>

ViewMutSetUnchecked ==
    /\ view.kind = "mut"
    /\ \E i \in IdxIn, j \in IdxIn, v \in Vals :
         /\ i < view.m /\ j < view.n
         /\ last' = Call("MatrixViewMut::set_unchecked", i, j, "ok", 0)
         /\ mat' = view_mut_set(mat, view, i, j, v)
         /\ shadow' = [shadow EXCEPT !.e[<<i, j>>] = v]
         /\ input' = NoMatrix
    /\ UNCHANGED <<idxRest, overflow_checks, phase, view, vec_out>>

\* the parts of the state a specification does not exercise
MatmulUnused ==
    /\ matA = NoMatrix /\ matB = NoMatrix /\ matC = NoMatrix
    /\ mm = [status |-> "unused", trace |-> <<>>]

BenchUnused ==
    /\ bench_pc = "unused"
    /\ opts = [warmup |-> 0, trial_count |-> 0]
    /\ loop_end = 0 /\ iter = 0 /\ args = 0 /\ total_count = 0
    /\ timed = <<>> /\ calls = <<>>

RngUnused ==
    /\ rng = [neg |-> FALSE, hi |-> 0, lo |-> 0]
    /\ draws = 0
    /\ rand_out = [status |-> "unused"]

InitIdx ==
    /\ overflow_checks \in BOOLEAN
    /\ phase = "none"
    /\ mat = NoMatrix
    /\ view = NoView
    /\ shadow = NoShadow
    /\ input = NoMatrix
    /\ vec_out = <<>>
    /\ last = Call("init", 0, 0, "ok", 0)
    /\ MatmulUnused /\ BenchUnused /\ RngUnused

NextIdx ==
    \/ FromVec \/ ToVec \/ View \/ ViewMut \/ DropView
    \/ MatGet \/ MatSet
    \/ ViewGet \/ ViewGetUnchecked \/ ViewSet \/ ViewSetUnchecked
    \/ ViewMutGet \/ ViewMutGetUnchecked \/ ViewMutSet \/ ViewMutSetUnchecked

SpecIdx == InitIdx /\ [][NextIdx]_vars

(***************************************************************************)
(* Claims on the Matrix, its views and the checked / unchecked accessors,  *)
(* under SpecIdx.                                                          *)
(***************************************************************************)
CheckedGets == {"Matrix::get", "MatrixView::get", "MatrixViewMut::get"}

CheckedSets == {"Matrix::set", "MatrixViewMut::set"}

ReadOnlySets == {"MatrixView::set", "MatrixView::set_unchecked"}

ViewGets == {"MatrixView::get", "MatrixView::get_unchecked",
             "MatrixViewMut::get", "MatrixViewMut::get_unchecked"}

\* the buffer offsets a row slice covers
SliceOffsets(r) == r.start .. (r.start + r.len - 1)

\* C3: a checked get(i, j) on Matrix, MatrixView or MatrixViewMut, and a
\* checked set(i, j, v) on Matrix or MatrixViewMut, with i >= rows or
\* j >= cols fails with an out-of-range error and changes no entry; so on a
\* Matrix with two rows get(0, cols) and set(0, cols, v) fail.
C3_CheckedAccessOutOfRangeFails ==
    [][(/\ last'.op \in CheckedGets \cup CheckedSets
        /\ (last'.i >= mat.m \/ last'.j >= mat.n))
       => (last'.out = "panic" /\ mat' = mat)]_vars

\* C4: set and set_unchecked on a MatrixView panic for every (i, j, v), in
\* range or not, and write nothing: the Matrix behind the view and the view
\* itself are as before the call.
C4_ReadOnlyViewRejectsWrites ==
    [][(last'.op \in ReadOnlySets /\ view.kind = "ro")
       => (last'.out = "panic" /\ mat' = mat /\ view' = view)]_vars

\* a read-only set_unchecked with in-range indices on a 2 x 3 view panicked
C4_Witness ==
    /\ last.op = "MatrixView::set_unchecked" /\ last.out = "panic"
    /\ view.kind = "ro" /\ view.m = 2 /\ view.n = 3
    /\ last.i = 1 /\ last.j = 2

\* C5: from_vec(rows, cols, data) fails exactly when data.length differs
\* from rows * cols; when it succeeds get(i, j) is data[i * cols + j] for
\* all i < rows, j < cols, and to_vec on the Matrix returns data.
C5_FromVecChecksLength ==
    /\ last.op = "from_vec"
         => /\ last.out = "panic" <=> Len(input.data) # input.m * input.n
            /\ last.out = "ok" =>
                  \A c \in Cells(input.m, input.n) :
                     /\ ~mat_index_panics(mat, c[1], c[2])
                     /\ mat_get(mat, c[1], c[2])
                          = At(input.data, c[1] * input.n + c[2])
    /\ (last.op = "to_vec" /\ input # NoMatrix) => vec_out = input.data

\* C6: on a Matrix with data.length = rows * cols (rows or cols may be 0)
\* view() and view_mut() succeed and give exactly `rows` row slices of
\* length `cols`, slice i covering the flat offsets i*cols .. i*cols+cols-1;
\* the slices are pairwise disjoint and cover the buffer, and a get(i, j)
\* through the view returns the Matrix's entry (i, j).
C6_ViewsPartitionTheBuffer ==
    Len(mat.data) = mat.m * mat.n =>
      /\ last.op \in {"view", "view_mut"} => last.out = "ok"
      /\ view.kind # "none" =>
           /\ view.m = mat.m /\ view.n = mat.n
           /\ Len(view.rows) = mat.m
           /\ \A i \in 0..(mat.m - 1) :
                 At(view.rows, i) = [start |-> i * mat.n, len |-> mat.n]
           /\ \A i, k \in 0..(mat.m - 1) :
                 i # k => SliceOffsets(At(view.rows, i))
                            \cap SliceOffsets(At(view.rows, k)) = {}
           /\ UNION {SliceOffsets(At(view.rows, i)) : i \in 0..(mat.m - 1)}
                 = 0..(Len(mat.data) - 1)
           /\ (last.op \in ViewGets /\ last.out = "ok")
                 => last.ret = At(mat.data, last.i * mat.n + last.j)

\* a mutable view of a 2 x 3 Matrix was read at its last entry
C6_Witness ==
    /\ view.kind = "mut" /\ mat.m = 2 /\ mat.n = 3
    /\ last.op = "MatrixViewMut::get" /\ last.out = "ok"
    /\ last.i = 1 /\ last.j = 2 /\ last.ret = 1
    /\ At(mat.data, 2) = 0

\* C7: every in-range set / set_unchecked through a MatrixViewMut changes
\* exactly the entry at flat offset i * cols + j of the owning Matrix; a
\* get(i, j) through the view, or through the Matrix once the view is
\* dropped, returns the last value written to (i, j), or the original one.
C7_ViewMutWritesOneEntry ==
    /\ view.kind = "mut" =>
         /\ shadow.valid
         /\ \A c \in Cells(mat.m, mat.n) :
               At(mat.data, c[1] * mat.n + c[2]) = shadow.e[c]
         /\ (last.op \in ViewGets /\ last.out = "ok")
               => last.ret = shadow.e[<<last.i, last.j>>]
    /\ (phase = "owned" /\ view.kind = "none" /\ shadow.valid) =>
         /\ \A c \in Cells(mat.m, mat.n) :
               At(mat.data, c[1] * mat.n + c[2]) = shadow.e[c]
         /\ (/\ last.op = "Matrix::get" /\ last.out = "ok"
             /\ last.i < mat.m /\ last.j < mat.n)
               => last.ret = shadow.e[<<last.i, last.j>>]

\* after writes through a mutable view of a 2 x 3 Matrix and its drop, the
\* Matrix shows a written 1 at (1, 0) next to an entry still 0 at (0, 2)
C7_Witness ==
    /\ phase = "owned" /\ view.kind = "none" /\ shadow.valid
    /\ input = NoMatrix
    /\ mat.m = 2 /\ mat.n = 3
    /\ last.op = "Matrix::get" /\ last.out = "ok"
    /\ last.i = 1 /\ last.j = 0 /\ last.ret = 1
    /\ At(mat.data, 2) = 0

(***************************************************************************)
(* f64 in the model: the integers of magnitude up to FMax are the finite   *)
(* values, all exact; a finite result beyond FMax overflows to an infinity *)
(* as IEEE-754 round-to-nearest does beyond f64::MAX; infinities and NaN   *)
(* combine by the IEEE-754 rules.  Addition is therefore not associative:  *)
(* (FMax + FMax) + (-FMax) is +inf and FMax + (FMax + (-FMax)) is FMax.    *)
(***************************************************************************)
PInf == FMax + 1

NInf == 0 - PInf

NaN == FMax + 2

Finite == (0 - FMax)..FMax

F64 == Finite \cup {PInf, NInf, NaN}

Round(x) == IF x > FMax THEN PInf ELSE IF x < 0 - FMax THEN NInf ELSE x

Sign(x) == IF x = 0 THEN 0 ELSE IF x > 0 THEN 1 ELSE 0 - 1

FAdd(x, y) ==
    IF x = NaN \/ y = NaN THEN NaN
    ELSE IF x \in Finite /\ y \in Finite THEN Round(x + y)
    ELSE IF x \in Finite THEN y
    ELSE IF y \in Finite THEN x
    ELSE IF x = y THEN x
    ELSE NaN

FMul(x, y) ==
    IF x = NaN \/ y = NaN THEN NaN
    ELSE IF x \in Finite /\ y \in Finite THEN Round(x * y)
    ELSE IF x = 0 \/ y = 0 THEN NaN
    ELSE IF Sign(x) = Sign(y) THEN PInf
    ELSE NInf

(***************************************************************************)
(* matmul (lib.rs 184-206).  The call works on the views a = x.view(),     *)
(* b = y.view(), c = z.view_mut(); st is the call's state: the buffer      *)
(* behind c, the unchecked accesses made so far and whether one of them    *)
(* was out of range of the row slices (undefined behaviour).               *)
(***************************************************************************)
ViewOn(M, kind, rows) == [kind |-> kind, m |-> M.m, n |-> M.n, rows |-> rows]

Access(v, op, i, j, pass) ==
    [view |-> v, op |-> op, i |-> i, j |-> j, pass |-> pass]

\* an unchecked access is defined only within the Vec of rows and the row
InRange(V, i, j) == i < Len(V.rows) /\ j < At(V.rows, i).len

\* c.set_unchecked(i, j, value)
mm_set(st, vc, i, j, value, pass) ==
    IF st.ub \/ ~InRange(vc, i, j)
    THEN [st EXCEPT !.ub = TRUE,
                    !.trace = Append(@, Access("c", "set", i, j, pass))]
    ELSE [st EXCEPT !.c = view_mut_set(@, vc, i, j, value),
                    !.trace = Append(@, Access("c", "set", i, j, pass))]

\* the trace of one v.get_unchecked(i, j)
mm_get(st, name, V, i, j, pass) ==
    [st EXCEPT !.ub = @ \/ ~InRange(V, i, j),
               !.trace = Append(@, Access(name, "get", i, j, pass))]

\* for i in 0..c.m { for j in 0..c.n { c.set_unchecked(i, j, 0.0) } },
\* t counting the iterations made: i = t div c.n, j = t mod c.n.
RECURSIVE ZeroPass(_, _, _)
ZeroPass(st, vc, t) ==
    IF t = vc.m * vc.n \/ st.ub THEN st
    ELSE ZeroPass(mm_set(st, vc, t \div vc.n, t % vc.n, 0, "zero"), vc, t + 1)

\* one c.set_unchecked(i, j, c.get_unchecked(i, j)
\*                            + a.get_unchecked(i, k) * b.get_unchecked(k, j))
AccWrite(st, A, B, va, vb, vc, i, k, j) ==
    IF st.ub THEN st
    ELSE mm_set(st, vc, i, j,
                FAdd(view_get(st.c, vc, i, j),
                     FMul(view_get(A, va, i, k), view_get(B, vb, k, j))),
                "acc")

AccStep(st, A, B, va, vb, vc, i, k, j) ==
    AccWrite(mm_get(mm_get(mm_get(st, "c", vc, i, j, "acc"),
                           "a", va, i, k, "acc"),
                    "b", vb, k, j, "acc"),
             A, B, va, vb, vc, i, k, j)

\* for i in 0..a.m { for k in 0..a.n { for j in 0..b.n { ... } } }, t
\* counting the iterations made: i = t div (a.n * b.n), k = (t div b.n) mod
\* a.n, j = t mod b.n.
RECURSIVE AccPass(_, _, _, _, _, _, _)
AccPassDecreasingK(st, A, B, va, vb, vc, t) ==
    IF t = va.m * va.n * vb.n \/ st.ub THEN st
    ELSE AccPass(AccStep(st, A, B, va, vb, vc,
                         t \div (va.n * vb.n),
                         va.n - 1 - ((t \div vb.n) % va.n),
                         t % vb.n),
                 A, B, va, vb, vc, t + 1)
AccPassInnerOverRows(st, A, B, va, vb, vc, t) ==
    IF t = va.m * va.n * vb.m \/ st.ub THEN st
    ELSE AccPass(AccStep(st, A, B, va, vb, vc,
                         t \div (va.n * vb.m), (t \div vb.m) % va.n,
                         t % vb.m),
                 A, B, va, vb, vc, t + 1)
AccPass(st, A, B, va, vb, vc, t) ==
    IF t = va.m * va.n * vb.n \/ st.ub THEN st
    ELSE AccPass(AccStep(st, A, B, va, vb, vc,
                         t \div (va.n * vb.n), (t \div vb.n) % va.n,
                         t % vb.n),
                 A, B, va, vb, vc, t + 1)

\* assert_eq!(a.m, c.m); assert_eq!(a.n, b.m); assert_eq!(b.n, c.n);
dims_ok(va, vb, vc) == va.m = vc.m /\ va.n = vb.m /\ vb.n = vc.n

\* what the call leaves: how it ended, c's buffer, the accesses made
Outcome(st, ended) ==
    [status |-> IF st.ub THEN "ub" ELSE ended, c |-> st.c, trace |-> st.trace]

Entered(C) == [c |-> C, trace |-> <<>>, ub |-> FALSE]

matmul_zero_before_assert(A, B, C, va, vb, vc) ==
    IF ~dims_ok(va, vb, vc)
    THEN Outcome(ZeroPass(Entered(C), vc, 0), "panic")
    ELSE Outcome(AccPass(ZeroPass(Entered(C), vc, 0), A, B, va, vb, vc, 0),
                 "ok")
matmul(A, B, C, va, vb, vc) ==
    IF ~dims_ok(va, vb, vc)
    THEN Outcome(Entered(C), "panic")
    ELSE Outcome(AccPass(ZeroPass(Entered(C), vc, 0), A, B, va, vb, vc, 0),
                 "ok")

\* matmul(&x.view(), &y.view(), &mut z.view_mut()) on three Matrices.  After
\* an out-of-range unchecked access nothing is known of z's buffer.
Matmul ==
    /\ mm.status = "ready"
    /\ \E va \in {ViewOn(matA, "ro", view_of(matA).rows)},
          vb \in {ViewOn(matB, "ro", view_of(matB).rows)},
          vc \in {ViewOn(matC, "mut", view_mut_of(matC).rows)} :
       \E r \in {matmul(matA, matB, matC, va, vb, vc)} :
         /\ mm' = [status |-> r.status, trace |-> r.trace]
         /\ IF r.status = "ub"
            THEN matC' \in {Matrix(matC.m, matC.n, d) :
                               d \in [1..Len(matC.data) -> {0, NaN}]}
            ELSE matC' = r.c
    /\ UNCHANGED <<overflow_checks, idxVars, benchVars, rngVars, matA, matB>>

\* the entries of a and b handed to matmul, and what c holds before it
AVals == {0, 1, 0 - 1}

BVals == {1, FMax, PInf}

CVals == {0, 1, NaN}

\* the m x n Matrices from_vec builds with every entry d
Uniform(m, n, S) ==
    {Matrix(m, n, [k \in 1..(m * n) |-> d]) : d \in S}

\* ... and with every entry d but one
Sparse(m, n, S) ==
    Uniform(m, n, S) \cup
    {Matrix(m, n, [k \in 1..(m * n) |-> IF k = e THEN x ELSE d]) :
        d \in S, x \in S, e \in 1..(m * n)}

Built(M) == ~from_vec_panics(M.m, M.n, M.data)

\* operands whose shapes agree: a is m x n, b is n x p, c is m x p; one of
\* a and b has an entry that differs from the others
InitMat ==
    /\ overflow_checks \in BOOLEAN
    /\ \E m \in 0..MaxOuter, n \in 0..MaxInner, p \in 0..MaxOuter :
         /\ \/ matA \in Sparse(m, n, AVals) /\ matB \in Uniform(n, p, BVals)
            \/ matA \in Uniform(m, n, AVals) /\ matB \in Sparse(n, p, BVals)
         /\ matC \in Uniform(m, p, CVals)
    /\ Built(matA) /\ Built(matB) /\ Built(matC)
    /\ mm = [status |-> "ready", trace |-> <<>>]
    /\ phase = "unused" /\ mat = NoMatrix /\ view = NoView
    /\ shadow = NoShadow /\ input = NoMatrix /\ vec_out = <<>>
    /\ last = Call("unused", 0, 0, "ok", 0)
    /\ BenchUnused /\ RngUnused

\* operands of any shapes
InitShapes ==
    /\ overflow_checks \in BOOLEAN
    /\ \E am \in 0..MaxOuter, an \in 0..MaxInner, bm \in 0..MaxInner,
          bn \in 0..MaxOuter, cm \in 0..MaxOuter, cn \in 0..MaxOuter :
         /\ matA \in Uniform(am, an, AVals)
         /\ matB \in Uniform(bm, bn, BVals)
         /\ matC \in Uniform(cm, cn, CVals)
    /\ Built(matA) /\ Built(matB) /\ Built(matC)
    /\ mm = [status |-> "ready", trace |-> <<>>]
    /\ phase = "unused" /\ mat = NoMatrix /\ view = NoView
    /\ shadow = NoShadow /\ input = NoMatrix /\ vec_out = <<>>
    /\ last = Call("unused", 0, 0, "ok", 0)
    /\ BenchUnused /\ RngUnused

NextMat == Matmul

SpecMat == InitMat /\ [][NextMat]_vars

SpecShapes == InitShapes /\ [][NextMat]_vars

(***************************************************************************)
(* Claims on matmul, under SpecMat (shapes agree) and SpecShapes (any).    *)
(***************************************************************************)
\* entry (i, j) of a Matrix: the element at flat offset i * cols + j
Entry(M, i, j) == At(M.data, i * M.n + j)

\* 0.0 + a[i][0] * b[0][j] + ... + a[i][k-1] * b[k-1][j], added left to right
RECURSIVE DotUpTo(_, _, _, _, _)
DotUpTo(A, B, i, j, k) ==
    IF k = 0 THEN 0
    ELSE FAdd(DotUpTo(A, B, i, j, k - 1),
              FMul(Entry(A, i, k - 1), Entry(B, k - 1, j)))

AllZero(M) == \A q \in 1..Len(M.data) : M.data[q] = 0

AllFinite(M) == \A q \in 1..Len(M.data) : M.data[q] \in Finite

DimsAgree == matA.m = matC.m /\ matA.n = matB.m /\ matB.n = matC.n

IsDotProduct ==
    \A c \in Cells(matC.m, matC.n) :
       Entry(matC, c[1], c[2]) = DotUpTo(matA, matB, c[1], c[2], matA.n)

\* C1 as stated: when matmul(a, b, c) returns on a (m x n), b (n x p),
\* c (m x p), every c[i][j] is the sum over k = 0..n-1, in increasing k, of
\* a[i][k] * b[k][j], whatever c held before; and c is all zero when a is
\* all zero or n = 0.
C1_MatmulIsDotProduct ==
    (DimsAgree /\ mm.status # "ready") =>
       /\ mm.status = "ok"
       /\ IsDotProduct
       /\ (AllZero(matA) \/ matA.n = 0) => AllZero(matC)

\* C1 as amended: the same, with c all zero when n = 0, or when a is all
\* zero and every entry of b is finite (0.0 * inf and 0.0 * NaN are NaN).
C1_MatmulIsDotProductFiniteZero ==
    (DimsAgree /\ mm.status # "ready") =>
       /\ mm.status = "ok"
       /\ IsDotProduct
       /\ ((AllZero(matA) /\ AllFinite(matB)) \/ matA.n = 0) => AllZero(matC)

\* a 2 x 3 times 3 x 2 product has returned whose row 0 sums
\* FMax + FMax - FMax left to right (+inf; any other order gives FMax)
C1_Witness ==
    /\ mm.status = "ok"
    /\ matA = Matrix(2, 3, <<1, 1, 0 - 1, 1, 1, 1>>)
    /\ matB = Matrix(3, 2, <<FMax, FMax, FMax, FMax, FMax, FMax>>)
    /\ matC = Matrix(2, 2, <<PInf, PInf, PInf, PInf>>)

\* C2: when a.rows = c.rows, a.cols = b.rows, b.cols = c.cols do not all
\* hold, matmul fails with a dimension mismatch before it writes anything:
\* c's buffer is after the call what it was before.
C2_MismatchFailsBeforeWriting ==
    [][(mm.status = "ready" /\ mm'.status # "ready" /\ ~DimsAgree)
       => (mm'.status = "panic" /\ mm'.trace = <<>> /\ matC' = matC)]_vars

\* a call with a.cols # b.rows alone, on a 2 x 2 c holding ones, panicked
C2_Witness ==
    /\ mm.status = "panic"
    /\ matA.n # matB.m /\ matA.m = matC.m /\ matB.n = matC.n
    /\ matC = Matrix(2, 2, <<1, 1, 1, 1>>)

\* the shape of the view an access goes through
Shape(name) ==
    IF name = "a" THEN matA ELSE IF name = "b" THEN matB ELSE matC

\* C10: when the three preconditions hold, every unchecked access matmul
\* makes is within the view it touches (i < rows, j < cols, for c, a and b),
\* and the zeroing sweep over all of c is over before the first
\* accumulation step.
C10_UncheckedAccessesInRange ==
    (DimsAgree /\ mm.status # "ready") =>
       /\ mm.status = "ok"
       /\ \A q \in 1..Len(mm.trace) :
             /\ mm.trace[q].i < Shape(mm.trace[q].view).m
             /\ mm.trace[q].j < Shape(mm.trace[q].view).n
             /\ q <= matC.m * matC.n
                  => /\ mm.trace[q].pass = "zero"
                     /\ mm.trace[q].view = "c" /\ mm.trace[q].op = "set"
             /\ q > matC.m * matC.n => mm.trace[q].pass = "acc"
       /\ {<<mm.trace[q].i, mm.trace[q].j>> : q \in 1..(matC.m * matC.n)}
             = Cells(matC.m, matC.n)
       /\ Len(mm.trace) = matC.m * matC.n + 4 * matA.m * matA.n * matB.n

\* a 2 x 3 times 3 x 2 product made its 4 + 4 * 12 accesses
C10_Witness ==
    /\ mm.status = "ok"
    /\ matA.m = 2 /\ matA.n = 3 /\ matB.n = 2
    /\ Len(mm.trace) = 52
    /\ mm.trace[52] = Access("c", "set", 1, 1, "acc")

(***************************************************************************)
(* bench (bench.rs 13-33).  One action per closure invocation, the loop    *)
(* bookkeeping around it included.  A startup result is the number of the  *)
(* iteration that made it, counted from 1 (0: none held).                  *)
(***************************************************************************)
\* the warmup and trial_count a caller passes
CountIn == (0..MaxIter) \cup {UsizeMod - 1}

\* if i >= opts.warmup
Measured(i, warmup) == i >= warmup

\* let mut total_time = 0.0; let mut total_count = 0; and the range
\* 0..opts.warmup + opts.trial_count, whose end is computed once
BenchEnter ==
    /\ bench_pc = "idle"
    /\ \E w \in CountIn, t \in CountIn :
         /\ opts' = [warmup |-> w, trial_count |-> t]
         /\ IF overflow_checks /\ Overflows(w + t)
            THEN bench_pc' = "panic" /\ loop_end' = 0
            ELSE bench_pc' = "loop" /\ loop_end' = Wrap(w + t)
    /\ iter' = 0 /\ total_count' = 0 /\ timed' = <<>>
    /\ UNCHANGED <<overflow_checks, idxVars, mmVars, rngVars, args, calls>>

\* let args = startup();
BenchStartup ==
    /\ bench_pc = "loop" /\ iter < loop_end
    /\ args' = iter + 1
    /\ calls' = Append(calls, [f |-> "startup", x |-> iter + 1])
    /\ bench_pc' = "timing"
    /\ UNCHANGED <<overflow_checks, idxVars, mmVars, rngVars, opts, loop_end,
                   iter, total_count, timed>>

\* critical_code(args); if i >= opts.warmup { total_time += ...;
\* total_count += 1 }, and the loop's step to the next i
BenchCritical ==
    /\ bench_pc = "timing"
    /\ calls' = Append(calls, [f |-> "critical_code", x |-> args])
    /\ args' = 0
    /\ IF Measured(iter, opts.warmup)
       THEN timed' = Append(timed, iter) /\ total_count' = total_count + 1
       ELSE UNCHANGED <<timed, total_count>>
    /\ iter' = iter + 1
    /\ bench_pc' = "loop"
    /\ UNCHANGED <<overflow_checks, idxVars, mmVars, rngVars, opts, loop_end>>

\* assert_eq!(total_count, opts.trial_count); and the return
BenchExit ==
    /\ bench_pc = "loop" /\ iter >= loop_end
    /\ bench_pc' = IF total_count = opts.trial_count THEN "done" ELSE "panic"
    /\ UNCHANGED <<overflow_checks, idxVars, mmVars, rngVars, opts, loop_end,
                   iter, args, total_count, timed, calls>>

InitBench ==
    /\ overflow_checks \in BOOLEAN
    /\ bench_pc = "idle"
    /\ opts = [warmup |-> 0, trial_count |-> 0]
    /\ loop_end = 0 /\ iter = 0 /\ args = 0 /\ total_count = 0
    /\ timed = <<>> /\ calls = <<>>
    /\ phase = "unused" /\ mat = NoMatrix /\ view = NoView
    /\ shadow = NoShadow /\ input = NoMatrix /\ vec_out = <<>>
    /\ last = Call("unused", 0, 0, "ok", 0)
    /\ MatmulUnused /\ RngUnused

NextBench == BenchEnter \/ BenchStartup \/ BenchCritical \/ BenchExit

SpecBench == InitBench /\ [][NextBench]_vars

(***************************************************************************)
(* Claims on bench, under SpecBench.                                       *)
(***************************************************************************)
\* the invocations so far alternate: startup, then critical_code on that
\* startup's result, iteration after iteration
Alternates ==
    \A q \in 1..Len(calls) :
       calls[q] = IF q % 2 = 1
                  THEN [f |-> "startup", x |-> (q + 1) \div 2]
                  ELSE [f |-> "critical_code", x |-> q \div 2]

Returned == bench_pc \in {"done", "panic"}

\* startup and critical_code ran warmup + trial_count times each, only the
\* last trial_count iterations were timed, and the assertion held
CountsAreRight ==
    /\ bench_pc = "done"
    /\ Len(calls) = 2 * (opts.warmup + opts.trial_count)
    /\ timed = [q \in 1..opts.trial_count |-> opts.warmup + q - 1]
    /\ total_count = opts.trial_count

\* C8 as stated: for every warmup >= 0 and trial_count >= 0 bench invokes
\* startup and then critical_code (on that iteration's startup result)
\* warmup + trial_count times in strict alternation, times only the last
\* trial_count iterations, and its assertion never fails.
C8_BenchIterations ==
    /\ Alternates
    /\ Returned => CountsAreRight

\* C8 restricted to the calls it holds for: the same for every warmup and
\* trial_count whose sum fits in usize.
C8_BenchIterationsInUsize ==
    /\ Alternates
    /\ (Returned /\ ~Overflows(opts.warmup + opts.trial_count))
         => CountsAreRight

\* bench returned after 3 warmup and 5 measured iterations
C8_Witness ==
    /\ bench_pc = "done"
    /\ opts = [warmup |-> 3, trial_count |-> 5]
    /\ Len(calls) = 16
    /\ timed = <<3, 4, 5, 6, 7>>

(***************************************************************************)
(* RNG (rng.rs 6-49).  An i64 is kept as sign and magnitude, the magnitude *)
(* in two 16-bit limbs: [neg, hi, lo] is (-1)^neg * (hi * 2^16 + lo).  The *)
(* seeds of the model are small, so |last| < 2^32 throughout and           *)
(* a * last + c never leaves i64.  Rust's % on i64 truncates: the          *)
(* remainder has the sign of the dividend.                                 *)
(***************************************************************************)
\* a: 1664525
LcgA == 1664525
\* c: 1013904223
LcgC == 1013904223
\* m: 4294967296 is Limb * Limb
Limb == 65536
\* self.rand_i64() % 16
ExpMod == 16

I64(neg, hi, lo) == [neg |-> neg /\ (hi # 0 \/ lo # 0), hi |-> hi, lo |-> lo]

\* a small integer as an i64
ToI64(x) == IF x < 0 THEN I64(TRUE, 0, 0 - x) ELSE I64(FALSE, 0, x)

\* the low limb and the carry of a * (hi * 2^16 + lo) + add
MulAddLo(lo, add) == lo * (LcgA % Limb) + (add % Limb)

\* (a * (hi * 2^16 + lo) + add) mod 2^32, limb by limb
MulAddLow(hi, lo, add) ==
    [lo |-> MulAddLo(lo, add) % Limb,
     hi |-> (hi * (LcgA % Limb) + lo * (LcgA \div Limb) + (add \div Limb)
               + (MulAddLo(lo, add) \div Limb)) % Limb]

\* (x - c) mod 2^32 on limbs, with the borrow
SubCLow(x) ==
    [lo |-> (x.lo - (LcgC % Limb)) % Limb,
     hi |-> (x.hi - (LcgC \div Limb)
               - (IF x.lo < LcgC % Limb THEN 1 ELSE 0)) % Limb]

\* rand_i64: self.last = (self.a * self.last + self.c) % self.m
rand_i64(x) ==
    IF ~x.neg
    THEN \* a * last + c >= 0
         I64(FALSE, MulAddLow(x.hi, x.lo, LcgC).hi,
                    MulAddLow(x.hi, x.lo, LcgC).lo)
    ELSE IF x.hi = 0 /\ x.lo <= LcgC \div LcgA
    THEN \* 0 <= c - a * |last| < 2^32
         I64(FALSE, (LcgC - LcgA * x.lo) \div Limb,
                    (LcgC - LcgA * x.lo) % Limb)
    ELSE \* a * last + c < 0: minus ((a * |last| - c) mod 2^32)
         I64(TRUE, SubCLow(MulAddLow(x.hi, x.lo, 0)).hi,
                   SubCLow(MulAddLow(x.hi, x.lo, 0)).lo)

\* x % d in i64, for d a power of two up to 2^16: a small signed integer
RemSmall(x, d) == IF x.neg THEN 0 - (x.lo % d) ELSE x.lo % d

\* rand_f64: exp = rand_i64() % 16; den = 2_i64.pow(exp.try_into().expect(
\* ...)); num = rand_i64() % den; num as f64 / den as f64.  The try_into to
\* u32 fails on a negative exp, after the first draw has updated last.
\* The result holds the state before the call (from), the draws made (r1, r2;
\* r2 = r1 when the second was not reached) and the quotient's two parts.
rand_f64(x) ==
    IF RemSmall(rand_i64(x), ExpMod) < 0
    THEN [status |-> "panic", from |-> x,
          r1 |-> rand_i64(x), r2 |-> rand_i64(x), num |-> 0, den |-> 1]
    ELSE [status |-> "ok", from |-> x,
          r1 |-> rand_i64(x), r2 |-> rand_i64(rand_i64(x)),
          num |-> RemSmall(rand_i64(rand_i64(x)),
                           2 ^ RemSmall(rand_i64(x), ExpMod)),
          den |-> 2 ^ RemSmall(rand_i64(x), ExpMod)]

SeedIn == (0 - MaxSeed)..MaxSeed

\* RNG::new(seed)
RngNew ==
    /\ rand_out.status = "none"
    /\ \E seed \in SeedIn : rng' = ToI64(seed)
    /\ rand_out' = [status |-> "new"]
    /\ UNCHANGED <<overflow_checks, idxVars, mmVars, benchVars, draws>>

RandF64 ==
    /\ rand_out.status \in {"new", "ok"}
    /\ draws < MaxDraws
    /\ \E r \in {rand_f64(rng)} :
         /\ rand_out' = r
         /\ rng' = r.r2
    /\ draws' = draws + 1
    /\ UNCHANGED <<overflow_checks, idxVars, mmVars, benchVars>>

InitRng ==
    /\ overflow_checks \in BOOLEAN
    /\ rng = ToI64(0)
    /\ draws = 0
    /\ rand_out = [status |-> "none"]
    /\ phase = "unused" /\ mat = NoMatrix /\ view = NoView
    /\ shadow = NoShadow /\ input = NoMatrix /\ vec_out = <<>>
    /\ last = Call("unused", 0, 0, "ok", 0)
    /\ MatmulUnused /\ BenchUnused

NextRng == RngNew \/ RandF64

SpecRng == InitRng /\ [][NextRng]_vars

(***************************************************************************)
(* Claims on the RNG, under SpecRng.                                       *)
(***************************************************************************)
\* (1664525 * state + 1013904223) mod 2^32, the residue in 0 .. 2^32 - 1:
\* equal to the truncated remainder when that is not negative, and to
\* 2^32 minus its magnitude when it is
LcgMod(x) ==
    IF ~rand_i64(x).neg THEN rand_i64(x)
    ELSE I64(FALSE,
             (Limb - 1 - rand_i64(x).hi
                + (IF rand_i64(x).lo = 0 THEN 1 ELSE 0)) % Limb,
             (Limb - rand_i64(x).lo) % Limb)

\* C9: for every seed, negative ones included, and any number of earlier
\* draws, rand_f64 completes without failing and returns num / denominator
\* with denominator = 2^(rand_i64() mod 16) and 0 <= num < denominator; each
\* rand_i64 it uses returns (1664525 * state + 1013904223) mod 2^32.
C9_RandF64InUnitInterval ==
    rand_out.status \in {"ok", "panic"} =>
       /\ rand_out.status = "ok"
       /\ rand_out.r1 = LcgMod(rand_out.from)
       /\ rand_out.r2 = LcgMod(rand_out.r1)
       /\ rng = rand_out.r2
       /\ rand_out.den = 2 ^ (rand_out.r1.lo % ExpMod)
       /\ 0 <= rand_out.num /\ rand_out.num < rand_out.den

====
